---- MODULE Spec2Model ----
(***************************************************************************)
(* Model of pycrostates/clustering/clustering.py: the BaseClustering /     *)
(* ModKMeans object life cycle (fit, transform, predict, reorder,          *)
(* smart_reorder, plot_cluster_centers), the multi-restart selection of    *)
(* _do_fit, the segmentation loop and boundary zeroing of _segment, and    *)
(* the splitting of predict at BAD annotations.                            *)
(*                                                                         *)
(* Floating point quantities are kept as integers after multiplying by a   *)
(* positive common denominator; NaN is a value of its own (see Num, NaN).  *)
(***************************************************************************)
EXTENDS Integers, Sequences, FiniteSets, TLC

\* ------------------------------------------------------------------ bounds
MaxClusters == 2        \* n_clusters ranges over 2..MaxClusters
MaxInit == 1            \* n_init ranges over 1..MaxInit in the life cycle
MaxPeak == 2            \* template rows a center may resemble in the life cycle
MaxRestarts == 3        \* n_init ranges over 1..MaxRestarts in _do_fit
MaxNt == 3              \* samples of a segment range over 1..MaxNt
MaxNu == 2              \* centers in _segment range over 2..MaxNu
MaxHalfWindow == 1      \* half_window_size ranges over 0..MaxHalfWindow
MaxFactor == 1          \* factor ranges over 0..MaxFactor
MaxSamples == 6         \* samples handed to predict range over 2..MaxSamples
MaxEpochs == 3           \* trials of an Epochs instance range over 1..MaxEpochs
MaxChannels == 3         \* channels handed to transform range over 1..MaxChannels
MaxTimes == 4            \* samples of a trial range over 1..MaxTimes
MaxCenters == 3          \* centers matched by smart_reorder range over 2..MaxCenters
MaxCorr == 2             \* an absolute correlation is one of the levels 1..MaxCorr
MaxSeed == 2             \* an integer seed is one of 0..MaxSeed
MaxDrawn == 1            \* draws a generator instance has served before fit
MaxBad == 2             \* BAD annotations range over 0..MaxBad

\* ------------------------------------------------------- program constants
NTemplates == 5         \* rows of the built-in template
MinCommon == 10         \* smart_reorder gives up when common channels <= 10

\* Python's None, and a value that is set
None == [set |-> FALSE]
Some(x) == [set |-> TRUE, v |-> x]
Kinds == {"Raw", "Epochs", "Evoked"}
\* the GEV of a restart: 0.0 or positive
GevLevels == {0, 1}

\* a squared activation is low or high
ActLevels == {0, 1}
\* channels of an instance, and how many of them the template also has
Channels == {[C |-> 1, common |-> 0], [C |-> 12, common |-> MinCommon],
             [C |-> 12, common |-> MinCommon + 1]}
\* instances handed to fit for a model of K clusters: the sample counts
\* are the two sides of the T < n_clusters test
Instances(K) == [kind : Kinds, ch : Channels, T : {K - 1, K}]
GatedOps == {"transform", "predict", "reorder", "smart_reorder",
             "plot_cluster_centers"}

VARIABLES
    \* the ModKMeans object
    n_clusters, current_fit, cluster_centers, GEV, info, labels,
    \* the last call on the object: its name, its argument (the order
    \* handed to reorder, the shape <<C, T>> of the data handed to fit,
    \* <<>> for the other calls) and what the call raised
    op, arg, raised,
    \* history: a fit has completed successfully on this object
    ever_fitted,
    \* one call of _do_fit: n_init, n_jobs, the GEV of every restart, the
    \* index of the serial loop, best_gev with the restart it came from,
    \* the restarts whose worker has finished in the order they finished,
    \* and where the call is
    n_init, n_jobs, restart_gev, run_i, best_gev, best_run, finish_order,
    fit_pc,
    \* one call of _segment: samples, centers and channels, the smoothing
    \* parameters, per sample the power Vvar[t] and per center and sample
    \* the squared activation act2[k][t] = np.dot(states, data)[k, t] ** 2
    \* of the normalised data, whether these numbers are finite, then the
    \* labelling of the loop, S0, the labels returned and where the call is
    Nt, Nu, Ne, half_window_size, factor, Vvar, act2, finite,
    labels_all, S0, seg_labels, seg_pc,
    \* history: the values of (labels_all, S0) the passes have started from
    visited,
    \* one call of predict with reject_by_annotation: the samples of the
    \* data, the BAD intervals [bad_onsets[i], bad_ends[i]) given by
    \* _annotations_starts_stops, half_window_size, the centers, the
    \* segmentation array, the position in zip(onsets, ends) and where the
    \* call is
    n_samples, bad_onsets, bad_ends, p_half_window, p_clusters, segmentation,
    zip_i, pred_pc,
    \* one call of transform on an Epochs instance: data.shape, the reshaped
    \* data, the distances and where the call is. A data value is written
    \* as the index <<e, c, t>> it has in inst.get_data(), a distance as
    \* the column of data values the correlation computes it from
    shape, reshape_data, distances, tr_pc,
    \* the while loop of smart_reorder: the centers, [mat, rows, columns],
    \* the order applied to the centers and where the call is
    n_centers, match, new_order, match_pc,
    \* history: every pass so far has picked a largest entry of an
    \* unconsumed row and column
    picks_ok,
    \* the restarts of one fit: self.random_state, the draw of init_times
    \* of every restart, and how the restarts are run (joblib backend)
    random_state, init_times, backend

segVars == <<Nt, Nu, Ne, half_window_size, factor, Vvar, act2, finite,
             labels_all, S0, seg_labels, seg_pc, visited>>
predVars == <<n_samples, bad_onsets, bad_ends, p_half_window, p_clusters,
              segmentation, zip_i, pred_pc>>
fitVars == <<n_init, n_jobs, restart_gev, run_i, best_gev, best_run,
             finish_order, fit_pc>>
objVars == <<n_clusters, current_fit, cluster_centers, GEV, info, labels,
             op, arg, raised, ever_fitted>>
trVars == <<shape, reshape_data, distances, tr_pc>>
matchVars == <<n_centers, match, new_order, match_pc, picks_ok>>
seedVars == <<random_state, init_times, backend>>
callVars == <<trVars, matchVars, seedVars>>
vars == <<objVars, fitVars, segVars, predVars, callVars>>

\* ----------------------------------------------------------------- helpers
Range(s) == {s[i] : i \in 1..Len(s)}

SetMax(S) == CHOOSE x \in S : \A y \in S : y <= x

RECURSIVE Insert(_, _)
Insert(x, s) ==
    IF s = <<>> THEN <<x>>
    ELSE IF x <= Head(s) THEN <<x>> \o s
    ELSE <<Head(s)>> \o Insert(x, Tail(s))

\* np.sort
RECURSIVE Sort(_)
Sort(s) == IF s = <<>> THEN <<>> ELSE Insert(Head(s), Sort(Tail(s)))

\* np.arange(0, n, 1)
Arange(n) == [i \in 1..n |-> i - 1]

\* a[order] on the rows of a, indices counted from 0 as numpy does
Take(a, order) == [i \in 1..Len(order) |-> a[order[i] + 1]]

\* ------------------------------------------------------ BaseClustering
\* _check_fit comparing with a literal that current_fit never holds
CheckFitWrongLiteral(cf) == cf # "Unfitted"

\* _check_fit: TRUE when the call goes on, FALSE when it raises
CheckFit(cf) == cf # "unfitted"

\* (np.sort(order) != np.arange(0, n_clusters, 1)).any() with numpy's
\* broadcasting of the comparison: "differ", "equal", or "shape" when the
\* two lengths cannot be broadcast (the comparison gives no array and the
\* call dies on an error that is not the invalid-order error)
OrderCheck(order, K) ==
    LET s == Sort(order)
        a == Arange(K)
    IN IF Len(s) = K
          THEN IF \E i \in 1..K : s[i] # a[i] THEN "differ" ELSE "equal"
       ELSE IF Len(s) = 1
          THEN IF \E i \in 1..K : s[1] # a[i] THEN "differ" ELSE "equal"
       ELSE IF K = 1
          THEN IF \E i \in 1..Len(s) : s[i] # a[1] THEN "differ" ELSE "equal"
       ELSE "shape"

\* one pass of the while loop of smart_reorder; st = [mat, rows, columns]
GreedyPick(st, ncent) ==
    LET rs == {r \in 1..NTemplates : r \notin Range(st.rows)}
        cs == {c \in 1..ncent : c \notin Range(st.columns)}
        top == SetMax({st.mat[r][c] : r \in rs, c \in cs})
        flat == {(r - 1) * ncent + (c - 1) :
                    r \in 1..NTemplates, c \in 1..ncent}
        hit == CHOOSE k \in flat :
                  /\ st.mat[(k \div ncent) + 1][(k % ncent) + 1] = top
                  /\ \A j \in flat : j < k =>
                        st.mat[(j \div ncent) + 1][(j % ncent) + 1] # top
        row == (hit \div ncent) + 1
        col == (hit % ncent) + 1
    IN [mat |-> [st.mat EXCEPT ![row][col] = -1],
        rows |-> Append(st.rows, row),
        columns |-> Append(st.columns, col)]

RECURSIVE GreedyLoop(_, _)
GreedyLoop(st, ncent) ==
    IF Len(st.columns) < NTemplates /\ Len(st.columns) < ncent
    THEN GreedyLoop(GreedyPick(st, ncent), ncent)
    ELSE st

\* sorted(zip(rows, columns)) read off its columns, as indices from 0
RECURSIVE SortedPairs(_)
SortedPairs(pairs) ==
    IF pairs = {} THEN <<>>
    ELSE LET p == CHOOSE q \in pairs : \A o \in pairs :
                     q[1] < o[1] \/ (q[1] = o[1] /\ q[2] <= o[2])
         IN <<p>> \o SortedPairs(pairs \ {p})

RECURSIVE Unmatched(_, _, _)
Unmatched(x, ncent, order) ==
    IF x >= ncent THEN <<>>
    ELSE (IF x \in Range(order) THEN <<>> ELSE <<x>>)
         \o Unmatched(x + 1, ncent, order)

\* lines 427-428: the order read off the rows and columns of the loop
OrderOf(st, ncent) ==
    LET n == Len(st.rows)
        \* zip keeps repeated pairs: tag each pair with its position
        tagged == {<<st.rows[i], st.columns[i], i>> : i \in 1..n}
        sp == SortedPairs(tagged)
        matched == [i \in 1..n |-> sp[i][2] - 1]
    IN matched \o Unmatched(0, ncent, matched)

\* the order smart_reorder applies, from the absolute correlation matrix
SmartOrder(mat, ncent) ==
    OrderOf(GreedyLoop([mat |-> mat, rows |-> <<>>, columns |-> <<>>], ncent),
            ncent)

\* absolute correlation matrices explored in the life cycle: every center
\* correlates strongly with one template row and weakly with the others
PeakedMat(peaks) ==
    [r \in 1..NTemplates |->
        [c \in 1..Len(peaks) |-> IF peaks[c] = r THEN 2 ELSE 1]]

\* ----------------------------------------------------------- ModKMeans
\* GEV of one restart (_run_mod_kmeans): with a single channel every
\* column has zero variance, _corr_vectors gives 0 and so GEV is 0
RunGev(C, g) == IF C < 2 THEN 0 ELSE g

\* the body of the serial loop of _do_fit; run 0 is "best_maps not bound"
SerialUpdate(b, gev, i) ==
    IF gev > b.gev THEN [gev |-> gev, run |-> i] ELSE b

RECURSIVE SerialLoop(_, _, _)
SerialLoop(gevs, i, b) ==
    IF i > Len(gevs) THEN b
    ELSE SerialLoop(gevs, i + 1, SerialUpdate(b, gevs[i], i))

\* np.argmax(runs[:, 0]): the first index of the maximum
ArgMax(gevs) ==
    CHOOSE i \in 1..Len(gevs) :
        /\ \A j \in 1..Len(gevs) : gevs[j] <= gevs[i]
        /\ \A j \in 1..(i - 1) : gevs[j] < gevs[i]

\* _do_fit on data of C channels and T samples: what it raises, and the
\* restart whose maps it returns
DoFit(C, T, K, jobs, gv) ==
    LET gevs == [i \in 1..Len(gv) |-> RunGev(C, gv[i])]
    IN IF T < K
          THEN [raised |-> "Dimension", run |-> 0, gev |-> 0]
       ELSE IF jobs = 1
          THEN LET sel == SerialLoop(gevs, 1, [gev |-> 0, run |-> 0])
               IN IF sel.run = 0
                     THEN [raised |-> "Unbound", run |-> 0, gev |-> 0]
                     ELSE [raised |-> "none", run |-> sel.run,
                           gev |-> sel.gev]
       ELSE LET b == ArgMax(gevs)
            IN [raised |-> "none", run |-> b, gev |-> gevs[b]]

\* ----------------------------------------------------------- _segment
\* a float: a number, kept as an integer multiple of 1 / (Nt * (Ne - 1)),
\* or NaN
Num(n) == [nan |-> FALSE, v |-> n]
NaN == [nan |-> TRUE, v |-> 0]

Abs(n) == IF n < 0 THEN -n ELSE n

RECURSIVE SumTo(_, _)
SumTo(f, n) == IF n = 0 THEN 0 ELSE f[n] + SumTo(f, n - 1)

\* np.argmax(..., axis=0) and np.argmin(..., axis=0) of one column, the
\* rows counted from 0: the first index of the extreme value
ArgMaxCol(col) ==
    (CHOOSE k \in 1..Len(col) :
        /\ \A j \in 1..Len(col) : col[j] <= col[k]
        /\ \A j \in 1..(k - 1) : col[j] < col[k]) - 1

ArgMinCol(col) ==
    (CHOOSE k \in 1..Len(col) :
        /\ \A j \in 1..Len(col) : col[j] >= col[k]
        /\ \A j \in 1..(k - 1) : col[j] > col[k]) - 1

\* labels_all = np.argmax(np.abs(np.dot(states, data)), axis=0)
InitialLabels(a2, T, K) ==
    [t \in 1..T |-> ArgMaxCol([k \in 1..K |-> a2[k][t]])]

\* np.sum(Vvar - np.sum(np.dot(w.T, states).T * data, axis=0) ** 2) for the
\* labelling lab
Unexplained(V, a2, lab, T) ==
    SumTo([t \in 1..T |-> V[t] - a2[lab[t] + 1][t]], T)

\* e, times Nt * (Ne - 1): only the squared term is divided in
\* np.sum(Vvar - (...) ** 2 / (Nt * (Ne - 1)))
ScaledE(V, a2, T, C) ==
    LET lab == InitialLabels(a2, T, Len(a2))
    IN SumTo([t \in 1..T |-> T * (C - 1) * V[t] - a2[lab[t] + 1][t]], T)

\* Nb = scipy.signal.convolve2d(w, window, mode='same'): for center k and
\* sample t, the samples labelled k at distance at most h of t
Neighbours(lab, k, t, h, T) ==
    Cardinality({u \in 1..T : Abs(u - t) <= h /\ lab[u] = k})

\* dlt = np.argmin(x, axis=0), x multiplied by |2 * e * (Ne - 1)| to stay
\* in the integers
Relabel(V, a2, lab, h, b, T, C) ==
    LET eN == ScaledE(V, a2, T, C)
        sg == IF eN < 0 THEN -1 ELSE 1
        x(k, t) == sg * (V[t] - a2[k][t]) * T
                   - 2 * Abs(eN) * b * Neighbours(lab, k - 1, t, h, T)
    IN [t \in 1..T |-> ArgMinCol([k \in 1..Len(a2) |-> x(k, t)])]

\* crit = 10e-6
CritDen == 100000

\* np.abs(Su - S0) <= np.abs(crit * Su); no comparison with NaN holds
Converged(Su, S) ==
    /\ ~Su.nan
    /\ ~S.nan
    /\ CritDen * Abs(Su.v - S.v) <= Abs(Su.v)

\* the while loop that sets the first segment to unlabeled, from index i
RECURSIVE ZeroFirst(_, _, _)
ZeroFirst(lab, i, first_label) ==
    IF lab[i] = first_label /\ i < Len(lab)
    THEN ZeroFirst([lab EXCEPT ![i] = 0], i + 1, first_label)
    ELSE lab

\* the last segment handled by an if in place of the while: one sample
ZeroLastOnce(lab, i, last_label) ==
    IF lab[i] = last_label /\ i > 1 THEN [lab EXCEPT ![i] = 0] ELSE lab

\* the while loop that sets the last segment to unlabeled, from index i
RECURSIVE ZeroLast(_, _, _)
ZeroLast(lab, i, last_label) ==
    IF lab[i] = last_label /\ i > 1
    THEN ZeroLast([lab EXCEPT ![i] = 0], i - 1, last_label)
    ELSE lab

\* lines 157-170: labels = labels_all + 1, then the two loops
Unlabel(lab_all) ==
    LET lab == [t \in 1..Len(lab_all) |-> lab_all[t] + 1]
        a == ZeroFirst(lab, 1, lab[1])
    IN ZeroLast(a, Len(a), a[Len(a)])

\* ------------------------------------------------------------ life cycle
FitIdle ==
    /\ n_init = 0
    /\ n_jobs = 0
    /\ restart_gev = <<>>
    /\ run_i = 0
    /\ best_gev = 0
    /\ best_run = 0
    /\ finish_order = <<>>
    /\ fit_pc = "idle"

SegIdle ==
    /\ Nt = 0
    /\ Nu = 0
    /\ Ne = 0
    /\ half_window_size = 0
    /\ factor = 0
    /\ Vvar = <<>>
    /\ act2 = <<>>
    /\ finite = TRUE
    /\ labels_all = <<>>
    /\ S0 = Num(0)
    /\ seg_labels = <<>>
    /\ seg_pc = "idle"
    /\ visited = {}

PredIdle ==
    /\ n_samples = 0
    /\ bad_onsets = <<>>
    /\ bad_ends = <<>>
    /\ p_half_window = 0
    /\ p_clusters = 0
    /\ segmentation = <<>>
    /\ zip_i = 0
    /\ pred_pc = "idle"

TrIdle ==
    /\ shape = <<>>
    /\ reshape_data = <<>>
    /\ distances = <<>>
    /\ tr_pc = "idle"

MatchIdle ==
    /\ n_centers = 0
    /\ match = [mat |-> <<>>, rows |-> <<>>, columns |-> <<>>]
    /\ new_order = <<>>
    /\ match_pc = "idle"
    /\ picks_ok = TRUE

SeedIdle ==
    /\ random_state = None
    /\ init_times = <<>>
    /\ backend = "none"

CallIdle == TrIdle /\ MatchIdle /\ SeedIdle

Init ==
    /\ CallIdle
    /\ n_init \in 1..MaxInit
    /\ n_jobs = 0
    /\ restart_gev = <<>>
    /\ run_i = 0
    /\ best_gev = 0
    /\ best_run = 0
    /\ finish_order = <<>>
    /\ fit_pc = "idle"
    /\ SegIdle
    /\ PredIdle
    /\ n_clusters \in 2..MaxClusters
    /\ current_fit = "unfitted"
    /\ cluster_centers = None
    /\ GEV = None
    /\ info = None
    /\ labels = None
    /\ op = "__init__"
    /\ arg = <<>>
    /\ raised = "none"
    /\ ever_fitted = FALSE

\* fit that sets current_fit before _do_fit has returned
FitAssignsFirst(inst, jobs, gv) ==
    LET r == DoFit(inst.ch.C, inst.T, n_clusters, jobs, gv)
    IN /\ op' = "fit"
       /\ arg' = <<inst.ch.C, inst.T>>
       /\ raised' = r.raised
       /\ current_fit' = inst.kind
       /\ IF r.raised = "none"
             THEN /\ cluster_centers' = Some([i \in 1..n_clusters |-> i])
                  /\ GEV' = Some(r.gev)
                  /\ info' = Some(inst.ch)
                  /\ ever_fitted' = TRUE
             ELSE UNCHANGED <<cluster_centers, GEV, info, ever_fitted>>
       /\ UNCHANGED <<n_clusters, labels>>

Fit(inst, jobs, gv) ==
    LET r == DoFit(inst.ch.C, inst.T, n_clusters, jobs, gv)
    IN /\ op' = "fit"
       /\ arg' = <<inst.ch.C, inst.T>>
       /\ raised' = r.raised
       /\ IF r.raised = "none"
             THEN /\ cluster_centers' = Some([i \in 1..n_clusters |-> i])
                  /\ GEV' = Some(r.gev)
                  /\ info' = Some(inst.ch)
                  /\ current_fit' = inst.kind
                  /\ ever_fitted' = TRUE
             ELSE UNCHANGED <<cluster_centers, GEV, info, current_fit,
                              ever_fitted>>
       /\ UNCHANGED <<n_clusters, labels>>

Transform ==
    /\ op' = "transform"
    /\ arg' = <<>>
    /\ raised' = IF CheckFit(current_fit) THEN "none" ELSE "NotFitted"
    /\ UNCHANGED <<n_clusters, current_fit, cluster_centers, GEV, info,
                   labels, ever_fitted>>

\* predict takes Raw or Evoked only
Predict(kind) ==
    /\ op' = "predict"
    /\ arg' = <<>>
    /\ raised' = IF ~CheckFit(current_fit) THEN "NotFitted"
                 ELSE IF kind = "Epochs" THEN "Type" ELSE "none"
    /\ UNCHANGED <<n_clusters, current_fit, cluster_centers, GEV, info,
                   labels, ever_fitted>>

PlotClusterCenters ==
    /\ op' = "plot_cluster_centers"
    /\ arg' = <<>>
    /\ raised' = IF CheckFit(current_fit) THEN "none" ELSE "NotFitted"
    /\ UNCHANGED <<n_clusters, current_fit, cluster_centers, GEV, info,
                   labels, ever_fitted>>

Reorder(order) ==
    /\ op' = "reorder"
    /\ arg' = order
    /\ IF ~CheckFit(current_fit)
          THEN raised' = "NotFitted" /\ UNCHANGED cluster_centers
       ELSE LET chk == OrderCheck(order, n_clusters)
            IN IF chk = "shape"
                  THEN raised' = "Broadcast" /\ UNCHANGED cluster_centers
               ELSE IF chk = "differ"
                  THEN raised' = "InvalidOrder" /\ UNCHANGED cluster_centers
               ELSE IF cluster_centers = None
                  THEN raised' = "Type" /\ UNCHANGED cluster_centers
               ELSE /\ raised' = "none"
                    /\ cluster_centers' = Some(Take(cluster_centers.v, order))
    /\ UNCHANGED <<n_clusters, current_fit, GEV, info, labels, ever_fitted>>

SmartReorder(peaks) ==
    /\ op' = "smart_reorder"
    /\ arg' = <<>>
    /\ IF ~CheckFit(current_fit)
          THEN raised' = "NotFitted" /\ UNCHANGED cluster_centers
       ELSE IF info = None \/ cluster_centers = None
          THEN raised' = "Type" /\ UNCHANGED cluster_centers
       ELSE /\ raised' = "none"
            /\ IF info.v.common <= MinCommon
                  THEN UNCHANGED cluster_centers
                  ELSE cluster_centers' =
                          Some(Take(cluster_centers.v,
                                    SmartOrder(PeakedMat(peaks),
                                               Len(cluster_centers.v))))

    /\ UNCHANGED <<n_clusters, current_fit, GEV, info, labels, ever_fitted>>

\* the orders handed to reorder: the permutations of 0..K-1; 0, ..., K-1
\* with one entry replaced by an index of 0..K (K is out of range), with
\* entries missing at the end, or followed by one more index
Orders(K) ==
    {o \in [1..K -> 0..K-1] : \A i, j \in 1..K : o[i] = o[j] => i = j}
    \cup {[Arange(K) EXCEPT ![i] = x] : i \in 1..K, x \in 0..K}
    \cup {SubSeq(Arange(K), 1, n) : n \in 0..K-1}
    \cup {Append(Arange(K), x) : x \in 0..K}

\* one template row per center row (PeakedMat); smart_reorder is followed
\* from center sets of n_clusters rows
Peaks == IF cluster_centers = None THEN {<<>>}
         ELSE IF Len(cluster_centers.v) # n_clusters THEN {}
         ELSE [1..Len(cluster_centers.v) -> 1..MaxPeak]

ObjNext ==
    \/ \E inst \in Instances(n_clusters), jobs \in 1..2 :
          \E gv \in [1..n_init -> GevLevels] : Fit(inst, jobs, gv)
    \/ Transform
    \/ \E kind \in Kinds : Predict(kind)
    \/ PlotClusterCenters
    \/ \E order \in Orders(n_clusters) : Reorder(order)
    \/ \E peaks \in Peaks : SmartReorder(peaks)

Next == ObjNext /\ UNCHANGED <<fitVars, segVars, predVars, callVars>>

Spec == Init /\ [][Next]_vars

\* ------------------------------------------------- life cycle properties
fitState == <<current_fit, cluster_centers, GEV, info>>

\* C1: while no fit has completed successfully, transform, predict,
\* reorder, smart_reorder and plot_cluster_centers raise the not-fitted
\* error and leave current_fit, cluster_centers, GEV and info as they
\* were; once a fit has completed, none of them raises the not-fitted error.
C1_NotFittedGate ==
    [][op' \in GatedOps =>
          IF ~ever_fitted
             THEN raised' = "NotFitted" /\ UNCHANGED fitState
             ELSE raised' # "NotFitted"]_vars

\* a gated call has failed on a model that was never fitted
C1_Witness == ~ever_fitted /\ op \in GatedOps /\ raised = "NotFitted"

FitStateConsistent ==
    \/ cluster_centers = None /\ GEV = None /\ current_fit = "unfitted"
    \/ cluster_centers # None /\ GEV # None /\ current_fit \in Kinds

\* C2: cluster_centers and GEV are both unset with current_fit = 'unfitted'
\* or both set with current_fit one of Raw, Epochs, Evoked, after every
\* call; and a fit that raises leaves current_fit, cluster_centers, GEV and
\* info as they were.
C2_FitAtomic ==
    /\ []FitStateConsistent
    /\ [][(op' = "fit" /\ raised' # "none") => UNCHANGED fitState]_vars

\* a fit has raised on a model that an earlier fit had fitted
C2_Witness == op = "fit" /\ raised # "none" /\ ever_fitted

IsBijection(order, K) ==
    Len(order) = K /\ Range(order) = 0..(K - 1)

Count(a, x) == Cardinality({i \in 1..Len(a) : a[i] = x})
SameRows(a, b) ==
    Len(a) = Len(b) /\ \A x \in Range(a) \cup Range(b) : Count(a, x) = Count(b, x)

\* C7: a successful reorder or smart_reorder changes the row order of
\* cluster_centers and nothing else: GEV, labels, current_fit, info and
\* n_clusters keep their values, the rows are the same rows, and reorder
\* with the identity permutation leaves cluster_centers as it was.
C7_ReorderFrame ==
    [][(op' \in {"reorder", "smart_reorder"} /\ raised' = "none") =>
          /\ UNCHANGED <<GEV, labels, current_fit, info, n_clusters>>
          /\ SameRows(cluster_centers.v, cluster_centers'.v)
          /\ (op' = "reorder" /\ arg' = Arange(n_clusters))
                => UNCHANGED cluster_centers]_vars

\* C8: fit raises a dimension error, and leaves current_fit,
\* cluster_centers, GEV and info as they were, when the data has fewer
\* samples than n_clusters or fewer than 2 channels.
C8_FitDimensionError ==
    [][(op' = "fit" /\ (arg'[2] < n_clusters \/ arg'[1] < 2)) =>
          raised' = "Dimension" /\ UNCHANGED fitState]_vars

\* ------------------------------------------------ one call of _do_fit
ObjIdle ==
    /\ n_clusters = 2
    /\ current_fit = "unfitted"
    /\ cluster_centers = None
    /\ GEV = None
    /\ info = None
    /\ labels = None
    /\ op = "__init__"
    /\ arg = <<>>
    /\ raised = "none"
    /\ ever_fitted = FALSE

DoFitInit ==
    /\ CallIdle
    /\ ObjIdle
    /\ SegIdle
    /\ PredIdle
    /\ n_init \in 1..MaxRestarts
    /\ n_jobs \in 1..2
    /\ restart_gev \in [1..n_init -> GevLevels]
    /\ run_i = 1
    /\ best_gev = 0
    /\ best_run = 0
    /\ finish_order = <<>>
    /\ fit_pc = "start"

\* if n_jobs == 1
Branch ==
    /\ fit_pc = "start"
    /\ fit_pc' = IF n_jobs = 1 THEN "serial" ELSE "parallel"
    /\ UNCHANGED <<n_init, n_jobs, restart_gev, run_i, best_gev, best_run,
                   finish_order>>

\* one iteration of for _ in range(self.n_init)
SerialIter ==
    /\ fit_pc = "serial"
    /\ run_i <= n_init
    /\ LET b == SerialUpdate([gev |-> best_gev, run |-> best_run],
                             restart_gev[run_i], run_i)
       IN best_gev' = b.gev /\ best_run' = b.run
    /\ run_i' = run_i + 1
    /\ UNCHANGED <<n_init, n_jobs, restart_gev, finish_order, fit_pc>>

\* return(best_maps, best_gev, best_segmentation) after the loop:
\* best_maps is not bound when no restart had gev > 0
SerialReturn ==
    /\ fit_pc = "serial"
    /\ run_i > n_init
    /\ fit_pc' = IF best_run = 0 THEN "raised" ELSE "returned"
    /\ UNCHANGED <<n_init, n_jobs, restart_gev, run_i, best_gev, best_run,
                   finish_order>>

\* the worker of restart i finishes; workers finish in any order
WorkerFinish(i) ==
    /\ fit_pc = "parallel"
    /\ i \notin Range(finish_order)
    /\ finish_order' = Append(finish_order, i)
    /\ UNCHANGED <<n_init, n_jobs, restart_gev, run_i, best_gev, best_run,
                   fit_pc>>

\* parallel(...) returns the results in submission order once every
\* worker has finished; best_run = np.argmax(runs[:, 0])
ParallelSelect ==
    /\ fit_pc = "parallel"
    /\ Range(finish_order) = 1..n_init
    /\ LET runs == [i \in 1..n_init |-> restart_gev[i]]
           b == ArgMax(runs)
       IN best_gev' = runs[b] /\ best_run' = b
    /\ fit_pc' = "returned"
    /\ UNCHANGED <<n_init, n_jobs, restart_gev, run_i, finish_order>>

DoFitNext ==
    /\ \/ Branch
       \/ SerialIter
       \/ SerialReturn
       \/ \E i \in 1..n_init : WorkerFinish(i)
       \/ ParallelSelect
    /\ UNCHANGED <<objVars, segVars, predVars, callVars>>

DoFitSpec == DoFitInit /\ [][DoFitNext]_vars

\* the restart the selection is to return: the highest GEV, and the lowest
\* index among the restarts that have it
Highest(g) == CHOOSE i \in 1..Len(g) :
                 /\ \A j \in 1..Len(g) : g[j] <= g[i]
                 /\ \A j \in 1..Len(g) : g[j] = g[i] => i <= j

\* C3: for every n_init >= 1 and all GEV values, all equal and all 0
\* included, _do_fit returns the GEV and the restart of the highest GEV,
\* the lowest index among equals, on the serial and the parallel path.
C3_BestRestart ==
    fit_pc \in {"returned", "raised"} =>
        /\ fit_pc = "returned"
        /\ best_run = Highest(restart_gev)
        /\ best_gev = restart_gev[Highest(restart_gev)]

\* C10: a parallel fit selects after all n_init results are in, its choice
\* is the lowest submission index of the highest GEV whatever the order in
\* which the workers finished, and it is the restart the serial path
\* selects for the same GEV values.
C10_ParallelDeterministic ==
    (fit_pc = "returned" /\ n_jobs > 1) =>
        /\ Range(finish_order) = 1..n_init
        /\ best_run = Highest(restart_gev)
        /\ best_run = SerialLoop(restart_gev, 1, [gev |-> 0, run |-> 0]).run

\* ------------------------------------------------- one call of _segment
\* The data normalise to finite numbers unless a channel is constant over
\* the segment (its standard deviation is 0), which a segment of one
\* sample always is. Finite data have Vvar[t] above every squared
\* activation, so that e > 0.
SegInit ==
    /\ CallIdle
    /\ ObjIdle
    /\ FitIdle
    /\ PredIdle
    /\ Nt \in 1..MaxNt
    /\ Nu \in 2..MaxNu
    /\ Ne = 2
    /\ half_window_size \in 0..MaxHalfWindow
    /\ factor \in 0..MaxFactor
    /\ finite \in BOOLEAN
    /\ Nt = 1 => ~finite
    /\ Vvar = [t \in 1..Nt |-> IF finite THEN SetMax(ActLevels) + 1 ELSE 0]
    /\ act2 \in IF finite THEN [1..Nu -> [1..Nt -> ActLevels]]
                ELSE {[k \in 1..Nu |-> [t \in 1..Nt |-> 0]]}
    /\ labels_all = InitialLabels(act2, Nt, Nu)
    /\ S0 = Num(0)
    /\ seg_labels = <<>>
    /\ seg_pc = "loop"
    /\ visited = {}

\* one pass of while True; with data that are not finite every x is NaN,
\* argmin gives 0 everywhere and Su is NaN
Pass ==
    /\ seg_pc = "loop"
    /\ LET dlt == IF finite
                  THEN Relabel(Vvar, act2, labels_all, half_window_size,
                               factor, Nt, Ne)
                  ELSE [t \in 1..Nt |-> 0]
           Su == IF finite THEN Num(Unexplained(Vvar, act2, dlt, Nt))
                 ELSE NaN
       IN /\ labels_all' = dlt
          /\ IF Converged(Su, S0)
                THEN seg_pc' = "unlabel" /\ S0' = S0
                ELSE seg_pc' = "loop" /\ S0' = Su
    /\ visited' = visited \cup {<<labels_all, S0>>}
    /\ UNCHANGED <<Nt, Nu, Ne, half_window_size, factor, Vvar, act2, finite,
                   seg_labels>>

\* after the break: labels = labels_all + 1, boundary runs set to 0, return
Return ==
    /\ seg_pc = "unlabel"
    /\ seg_labels' = Unlabel(labels_all)
    /\ seg_pc' = "done"
    /\ UNCHANGED <<Nt, Nu, Ne, half_window_size, factor, Vvar, act2, finite,
                   labels_all, S0, visited>>

SegNext ==
    /\ \/ Pass
       \/ Return
    /\ UNCHANGED <<objVars, fitVars, predVars, callVars>>

SegSpec == SegInit /\ [][SegNext]_vars

\* the first and the last maximal run of equal labels of a labelling
FirstRun(lab) == {t \in 1..Len(lab) : \A u \in 1..t : lab[u] = lab[1]}
LastRun(lab) == {t \in 1..Len(lab) : \A u \in t..Len(lab) : lab[u] = lab[Len(lab)]}

\* C4: the labels _segment returns for a segment of Nt samples and Nu
\* centers are Nt values in 0..Nu, and the first and the last maximal run
\* of equal labels of the labelling before the zeroing are all 0.
C4_BoundaryUnlabeled ==
    seg_pc = "done" =>
        /\ Len(seg_labels) = Nt
        /\ \A t \in 1..Nt : seg_labels[t] \in 0..Nu
        /\ \A t \in FirstRun(labels_all) \cup LastRun(labels_all) :
              seg_labels[t] = 0

\* _segment has returned, the labelling had more than two runs and a
\* sample in between kept its label
C4_Witness ==
    /\ seg_pc = "done"
    /\ FirstRun(labels_all) \cap LastRun(labels_all) = {}
    /\ \E t \in 1..Nt : seg_labels[t] # 0

\* C9: the loop of _segment ends for every input, whatever the data, the
\* window and the factor, and never cycles between labellings for ever.
\* A pass is a function of (labels_all, S0) alone, so the loop ends exactly
\* when no pass starts from values an earlier pass has started from.
C9_SegmentTerminates ==
    seg_pc = "loop" => <<labels_all, S0>> \notin visited

\* ------------------------------- predict with reject_by_annotation
\* _annotations_starts_stops gives the BAD annotations by onset, each with
\* onset <= end, inside the recording; annotations may overlap
BadLists(T, n) ==
    {oe \in [1..n -> (0..T) \X (0..T)] :
        /\ \A i \in 1..n : oe[i][1] <= oe[i][2]
        /\ \A i \in 1..(n - 1) : oe[i][1] <= oe[i + 1][1]}

PredictInit ==
    /\ CallIdle
    /\ ObjIdle
    /\ FitIdle
    /\ SegIdle
    /\ n_samples \in 2..MaxSamples
    /\ p_half_window \in 0..MaxHalfWindow
    /\ p_clusters = 2
    /\ \E n \in 0..MaxBad : \E oe \in BadLists(n_samples, n) :
          /\ bad_onsets = [i \in 1..n |-> oe[i][1]]
          /\ bad_ends = [i \in 1..n |-> oe[i][2]]
    /\ segmentation = <<>>
    /\ zip_i = 0
    /\ pred_pc = "start"

\* onsets.append(data.shape[-1] - 1) and ends = [0] + _ends
Onsets == Append(bad_onsets, n_samples - 1)
Ends == <<0>> \o bad_ends

\* what _segment returns for n samples: the labelling the loop ends with
\* depends on the data, the zeroing of its boundary runs is Unlabel
SegmentResults(n, K) == {Unlabel(lab) : lab \in [1..n -> 0..(K - 1)]}

\* if len(onsets) == 0: return(_segment(data, ...))
PredictWhole ==
    /\ pred_pc = "start"
    /\ bad_onsets = <<>>
    /\ segmentation' \in SegmentResults(n_samples, p_clusters)
    /\ pred_pc' = "done"
    /\ UNCHANGED <<n_samples, bad_onsets, bad_ends, p_half_window,
                   p_clusters, zip_i>>

\* segmentation = np.zeros(data.shape[-1])
PredictSplit ==
    /\ pred_pc = "start"
    /\ bad_onsets # <<>>
    /\ segmentation' = [t \in 1..n_samples |-> 0]
    /\ zip_i' = 1
    /\ pred_pc' = "zip"
    /\ UNCHANGED <<n_samples, bad_onsets, bad_ends, p_half_window,
                   p_clusters>>

\* one iteration of for onset, end in zip(onsets, ends); _segment does
\* not return for a segment of one sample (see Pass)
PredictInterval ==
    /\ pred_pc = "zip"
    /\ zip_i <= Len(Onsets)
    /\ LET onset == Onsets[zip_i]
           end == Ends[zip_i]
       IN IF onset - end >= 2 * p_half_window + 1
             THEN IF onset - end = 1
                     THEN pred_pc' = "in _segment" /\ UNCHANGED segmentation
                     ELSE /\ \E seg \in SegmentResults(onset - end, p_clusters) :
                              segmentation' =
                                 [t \in 1..n_samples |->
                                    IF end < t /\ t <= onset
                                       THEN seg[t - end]
                                       ELSE segmentation[t]]
                          /\ pred_pc' = "zip"
             ELSE pred_pc' = "zip" /\ UNCHANGED segmentation
    /\ zip_i' = zip_i + 1
    /\ UNCHANGED <<n_samples, bad_onsets, bad_ends, p_half_window,
                   p_clusters>>

\* return(segmentation)
PredictReturn ==
    /\ pred_pc = "zip"
    /\ zip_i > Len(Onsets)
    /\ pred_pc' = "done"
    /\ UNCHANGED <<n_samples, bad_onsets, bad_ends, p_half_window,
                   p_clusters, segmentation, zip_i>>

PredictNext ==
    /\ \/ PredictWhole
       \/ PredictSplit
       \/ PredictInterval
       \/ PredictReturn
    /\ UNCHANGED <<objVars, fitVars, segVars, callVars>>

PredictSpec == PredictInit /\ [][PredictNext]_vars

\* sample t (counted from 0) lies inside a BAD interval
Excluded(t) ==
    \E i \in 1..Len(bad_onsets) : bad_onsets[i] <= t /\ t < bad_ends[i]

\* the retained sub-interval around a retained sample t: the samples that
\* no excluded sample separates from t
Retained(t) ==
    {u \in 0..(n_samples - 1) :
        \A w \in 0..(n_samples - 1) :
            ((u <= w /\ w <= t) \/ (t <= w /\ w <= u)) => ~Excluded(w)}

\* C5: predict on data with BAD intervals returns one label per sample,
\* 0 for every sample inside a BAD interval and 0 for every sample of a
\* retained sub-interval of fewer than 2 * half_window_size + 1 samples.
C5_ExcludedUnlabeled ==
    (pred_pc = "done" /\ bad_onsets # <<>>) =>
        /\ Len(segmentation) = n_samples
        /\ \A t \in 0..(n_samples - 1) :
              /\ Excluded(t) => segmentation[t + 1] = 0
              /\ (~Excluded(t)
                    /\ Cardinality(Retained(t)) < 2 * p_half_window + 1)
                  => segmentation[t + 1] = 0

\* ------------------------------------- one call of transform on Epochs
\* a fitted model of K centers over C channels
ObjFitted(K, C, common) ==
    /\ n_clusters = K
    /\ current_fit = "Epochs"
    /\ cluster_centers = Some(Arange(K))
    /\ GEV = Some(1)
    /\ info = Some([C |-> C, common |-> common])
    /\ labels = None
    /\ op = "fit"
    /\ arg = <<C, K>>
    /\ raised = "none"
    /\ ever_fitted = TRUE

\* element f of the data of shape sh = (E, C, T) in memory (row-major)
\* order, as the index <<e, c, t>> it has in the data
Flat(sh, f) ==
    <<f \div (sh[2] * sh[3]), (f % (sh[2] * sh[3])) \div sh[3], f % sh[3]>>

\* data.reshape((data.shape[1], -1)): the elements keep their memory
\* order and are cut into data.shape[1] rows
ReshapeData(sh) ==
    LET ncol == (sh[1] * sh[2] * sh[3]) \div sh[2]
    IN [r \in 1..sh[2] |-> [j \in 1..ncol |-> Flat(sh, (r - 1) * ncol + (j - 1))]]

\* np.corrcoef(np.vstack([centers, reshape_data.T]))[:K, K:] followed by
\* np.max(np.abs(corr), axis=0): entry j is computed from row j of
\* reshape_data.T, the column j of reshape_data
Correlate(rd) ==
    [j \in 1..Len(rd[1]) |-> [r \in 1..Len(rd) |-> rd[r][j]]]

\* distances.reshape((shape[0], -1))
ReshapeDistances(d, nrow) ==
    LET ncol == Len(d) \div nrow
    IN [e \in 1..nrow |-> [t \in 1..ncol |-> d[(e - 1) * ncol + t]]]

TransformInit ==
    /\ FitIdle
    /\ SegIdle
    /\ PredIdle
    /\ MatchIdle
    /\ SeedIdle
    /\ shape \in (1..MaxEpochs) \X (1..MaxChannels) \X (1..MaxTimes)
    /\ ObjFitted(2, shape[2], 0)
    /\ reshape_data = <<>>
    /\ distances = <<>>
    /\ tr_pc = "get_data"

\* lines 237-239
TransformReshape ==
    /\ tr_pc = "get_data"
    /\ reshape_data' = ReshapeData(shape)
    /\ tr_pc' = "reshaped"
    /\ UNCHANGED <<shape, distances>>

\* lines 240-242
TransformCorrelate ==
    /\ tr_pc = "reshaped"
    /\ distances' = Correlate(reshape_data)
    /\ tr_pc' = "correlated"
    /\ UNCHANGED <<shape, reshape_data>>

\* lines 243, 249
TransformReturn ==
    /\ tr_pc = "correlated"
    /\ distances' = ReshapeDistances(distances, shape[1])
    /\ tr_pc' = "done"
    /\ UNCHANGED <<shape, reshape_data>>

TransformNext ==
    /\ \/ TransformReshape
       \/ TransformCorrelate
       \/ TransformReturn
    /\ UNCHANGED <<objVars, fitVars, segVars, predVars, matchVars, seedVars>>

TransformSpec == TransformInit /\ [][TransformNext]_vars

\* the column the transform of the single trial e (Raw and Evoked branch:
\* np.vstack([centers, data.T])) correlates at sample t: the C channel
\* values of sample t of trial e, in channel order
SingleTrial(e, t, C) == [c \in 1..C |-> <<e, c - 1, t>>]

\* C11: for Epochs data of shape (E, C, T), E >= 1, transform returns an
\* E-by-T array whose entry (e, t) is computed from exactly the C channel
\* values of sample t of trial e, as the single-trial transform of trial e
\* computes it at sample t.
C11_TransformPerTrial ==
    tr_pc = "done" =>
        /\ Len(distances) = shape[1]
        /\ \A e \in 1..shape[1] :
              /\ Len(distances[e]) = shape[3]
              /\ \A t \in 1..shape[3] :
                    distances[e][t] = SingleTrial(e - 1, t - 1, shape[2])

\* ------------------------------- the greedy matching of smart_reorder
\* the absolute correlation matrices handed to the loop: every entry has
\* one of the levels 1..MaxCorr; with distinct = TRUE the entries of one
\* level are spread so that no two entries of the matrix are equal
LevelMat(lv, ncent, distinct) ==
    [r \in 1..NTemplates |->
        [c \in 1..ncent |->
            IF distinct
            THEN lv[r][c] * (NTemplates * ncent) + (r - 1) * ncent + (c - 1)
            ELSE lv[r][c]]]

\* 2..MaxCenters centers with every matrix of levels, and one center more
\* than the template has rows with the matrices of PeakedMat
Mats(ncent) ==
    IF ncent <= MaxCenters
    THEN {LevelMat(lv, ncent, d) :
             lv \in [1..NTemplates -> [1..ncent -> 1..MaxCorr]], d \in BOOLEAN}
    ELSE {LevelMat(PeakedMat(pk), ncent, d) :
             pk \in [1..ncent -> 1..MaxCorr], d \in BOOLEAN}

MatchInit ==
    /\ FitIdle
    /\ SegIdle
    /\ PredIdle
    /\ TrIdle
    /\ SeedIdle
    /\ n_centers \in (2..MaxCenters) \cup {NTemplates + 1}
    /\ ObjFitted(n_centers, MinCommon + 1, MinCommon + 1)
    /\ \E m \in Mats(n_centers) :
          match = [mat |-> m, rows |-> <<>>, columns |-> <<>>]
    /\ new_order = <<>>
    /\ match_pc = "loop"
    /\ picks_ok = TRUE

\* the entry picked by a pass lies in a row and a column no earlier pass
\* has picked and no entry of such a row and column is larger
PickOk(st, nxt, ncent) ==
    LET row == nxt.rows[Len(nxt.rows)]
        col == nxt.columns[Len(nxt.columns)]
    IN /\ row \notin Range(st.rows)
       /\ col \notin Range(st.columns)
       /\ \A r \in 1..NTemplates, c \in 1..ncent :
             (r \notin Range(st.rows) /\ c \notin Range(st.columns))
                => st.mat[r][c] <= st.mat[row][col]

\* lines 417-426: one pass of the while loop
MatchPass ==
    /\ match_pc = "loop"
    /\ Len(match.columns) < NTemplates
    /\ Len(match.columns) < n_centers
    /\ match' = GreedyPick(match, n_centers)
    /\ picks_ok' = (picks_ok /\ PickOk(match, match', n_centers))
    /\ UNCHANGED <<n_centers, new_order, match_pc, objVars>>

\* lines 427-430: the loop has ended, the order is applied
MatchOrder ==
    /\ match_pc = "loop"
    /\ ~(Len(match.columns) < NTemplates /\ Len(match.columns) < n_centers)
    /\ new_order' = OrderOf(match, n_centers)
    /\ cluster_centers' = Some(Take(cluster_centers.v, new_order'))
    /\ op' = "smart_reorder"
    /\ arg' = <<>>
    /\ raised' = "none"
    /\ match_pc' = "done"
    /\ UNCHANGED <<n_centers, match, picks_ok, n_clusters, current_fit, GEV,
                   info, labels, ever_fitted>>

MatchNext ==
    /\ \/ MatchPass
       \/ MatchOrder
    /\ UNCHANGED <<fitVars, segVars, predVars, trVars, seedVars>>

MatchSpec == MatchInit /\ [][MatchNext]_vars

\* C12: for every absolute-correlation matrix, equal entries included,
\* every pass of the greedy matching picks a largest entry among the
\* unconsumed template rows and center columns, no template row and no
\* center is matched twice, and the order applied is a permutation of
\* [0,K), so that cluster_centers holds each original row exactly once.
C12_GreedyMatching ==
    /\ picks_ok
    /\ \A i, j \in 1..Len(match.rows) :
          i # j => /\ match.rows[i] # match.rows[j]
                   /\ match.columns[i] # match.columns[j]
    /\ match_pc = "done" =>
          /\ IsBijection(new_order, n_centers)
          /\ SameRows(cluster_centers.v, Arange(n_centers))

\* ----------------------------------- the random source of the restarts
\* self.random_state: an integer seed, or a RandomState instance seeded
\* with seed that has served pos draws. A draw is written <<seed, pos>>:
\* the draw number pos of the stream of that seed.
IntSeed(sd) == [kind |-> "int", seed |-> sd, pos |-> 0]
RandomState(sd, p) == [kind |-> "RandomState", seed |-> sd, pos |-> p]

\* lines 44-45: the generator _compute_maps draws from
Generator(rs) == IF rs.kind = "RandomState" THEN rs ELSE RandomState(rs.seed, 0)

\* line 52: random_state.choice(...) on the generator g
Choice(g) == <<g.seed, g.pos>>
Advance(g) == RandomState(g.seed, g.pos + 1)

\* self.random_state after a restart that drew from Generator(rs): an
\* instance is the generator itself and has advanced, an integer is kept
AfterRestart(rs) == IF rs.kind = "RandomState" THEN Advance(rs) ELSE rs

SeedInit ==
    /\ ObjIdle
    /\ SegIdle
    /\ PredIdle
    /\ TrIdle
    /\ MatchIdle
    /\ n_init \in 2..MaxRestarts
    /\ n_jobs \in 1..2
    /\ restart_gev = <<>>
    /\ run_i = 0
    /\ best_gev = 0
    /\ best_run = 0
    /\ finish_order = <<>>
    /\ fit_pc = "restarts"
    /\ random_state \in {IntSeed(sd) : sd \in 0..MaxSeed}
                        \cup {RandomState(sd, p) : sd \in 0..MaxSeed, p \in 0..MaxDrawn}
    /\ init_times = [i \in 1..n_init |-> <<>>]
    /\ backend \in IF n_jobs = 1 THEN {"serial"} ELSE {"processes", "threads"}

\* lines 567-569, 483-485, 44-52: restart run_i + 1 of the serial loop
SerialRestart ==
    /\ backend = "serial"
    /\ run_i < n_init
    /\ init_times' = [init_times EXCEPT ![run_i + 1] = Choice(Generator(random_state))]
    /\ random_state' = AfterRestart(random_state)
    /\ run_i' = run_i + 1
    /\ UNCHANGED <<n_init, n_jobs, backend>>

\* lines 575-578, 483-485, 44-52: restart i in a worker. A worker process
\* runs the method on a pickled copy of the object, so its draw leaves
\* self.random_state as it was; worker threads share the object.
WorkerRestart(i) ==
    /\ backend \in {"processes", "threads"}
    /\ init_times[i] = <<>>
    /\ init_times' = [init_times EXCEPT ![i] = Choice(Generator(random_state))]
    /\ random_state' = IF backend = "threads" THEN AfterRestart(random_state)
                                              ELSE random_state
    /\ run_i' = run_i + 1
    /\ UNCHANGED <<n_init, n_jobs, backend>>

SeedNext ==
    /\ \/ SerialRestart
       \/ \E i \in 1..n_init : WorkerRestart(i)
    /\ UNCHANGED <<objVars, segVars, predVars, trVars, matchVars,
                   restart_gev, best_gev, best_run, finish_order, fit_pc>>

SeedSpec == SeedInit /\ [][SeedNext]_vars

\* C13: within one fit of N >= 2 restarts no restart repeats the draw of
\* the restart before it, and in the serial loop restart i+1 takes the
\* draw that follows the draw of restart i in the stream of the seed,
\* for an integer seed as for a generator instance.
C13_RestartsAdvance ==
    \A i \in 1..(n_init - 1) :
        (init_times[i] # <<>> /\ init_times[i + 1] # <<>>) =>
            /\ init_times[i + 1] # init_times[i]
            /\ backend = "serial" =>
                  init_times[i + 1] = <<init_times[i][1], init_times[i][2] + 1>>

====
